---- MODULE Spec2Model ----
(***************************************************************************)
(* Model of expenses_tracker.py: the expense list held in the session, the *)
(* settlement calculation, the CSV export and the settlement card.         *)
(*                                                                         *)
(* Amounts are Python floats (IEEE-754 binary64, round-to-nearest-even).   *)
(* A float is modelled exactly: its magnitude is a natural number counted  *)
(* in units of 2^-64, written as a little-endian sequence of base-2^16     *)
(* limbs without leading zero limbs, together with a sign.  Every value    *)
(* the model reaches lies in [2^-11, 2^16), where every binary64 value is  *)
(* a multiple of 2^-64, or is a difference of such values.                 *)
(***************************************************************************)
EXTENDS Integers, Sequences, FiniteSets, TLC

\* ------------------------------------------------------------------------
\* Natural numbers of arbitrary size (limb sequences, least significant first)
\* ------------------------------------------------------------------------

Base == 2^16

\* limbs below the binary point of a float's magnitude
FracLimbs == 4

RECURSIVE Norm(_)
Norm(a) ==
  IF a = <<>> THEN <<>>
  ELSE IF a[Len(a)] = 0 THEN Norm(SubSeq(a, 1, Len(a) - 1))
  ELSE a

Limb(a, i) == IF i >= 1 /\ i <= Len(a) THEN a[i] ELSE 0

MaxOf(x, y) == IF x >= y THEN x ELSE y

RECURSIVE AddFrom(_, _, _, _)
AddFrom(a, b, i, carry) ==
  IF i > MaxOf(Len(a), Len(b))
  THEN (IF carry = 0 THEN <<>> ELSE <<carry>>)
  ELSE <<(Limb(a, i) + Limb(b, i) + carry) % Base>>
         \o AddFrom(a, b, i + 1, (Limb(a, i) + Limb(b, i) + carry) \div Base)

NatAdd(a, b) == Norm(AddFrom(a, b, 1, 0))

RECURSIVE SubFrom(_, _, _, _)
SubFrom(a, b, i, borrow) ==
  IF i > Len(a) THEN <<>>
  ELSE IF Limb(a, i) - Limb(b, i) - borrow < 0
  THEN <<Limb(a, i) - Limb(b, i) - borrow + Base>> \o SubFrom(a, b, i + 1, 1)
  ELSE <<Limb(a, i) - Limb(b, i) - borrow>> \o SubFrom(a, b, i + 1, 0)

\* a - b for a >= b
NatSub(a, b) == Norm(SubFrom(a, b, 1, 0))

RECURSIVE CmpFrom(_, _, _)
CmpFrom(a, b, i) ==
  IF i = 0 THEN 0
  ELSE IF Limb(a, i) > Limb(b, i) THEN 1
  ELSE IF Limb(a, i) < Limb(b, i) THEN -1
  ELSE CmpFrom(a, b, i - 1)

\* -1, 0, 1 as a < b, a = b, a > b
NatCmp(a, b) == CmpFrom(a, b, MaxOf(Len(a), Len(b)))

RECURSIVE MulFrom(_, _, _, _)
MulFrom(a, k, i, carry) ==
  IF i > Len(a)
  THEN (IF carry = 0 THEN <<>>
        ELSE <<carry % Base>> \o MulFrom(a, k, i, carry \div Base))
  ELSE <<(a[i] * k + carry) % Base>>
         \o MulFrom(a, k, i + 1, (a[i] * k + carry) \div Base)

\* a * k for a small k (k < 2^15)
NatMulSmall(a, k) == Norm(MulFrom(a, k, 1, 0))

RECURSIVE QuotFrom(_, _, _, _)
\* the limbs of a \div k, most significant first, from limb i down
QuotFrom(a, k, i, rem) ==
  IF i = 0 THEN <<>>
  ELSE QuotFrom(a, k, i - 1, (rem * Base + a[i]) % k)
         \o <<(rem * Base + a[i]) \div k>>

RECURSIVE RemFrom(_, _, _, _)
RemFrom(a, k, i, rem) ==
  IF i = 0 THEN rem ELSE RemFrom(a, k, i - 1, (rem * Base + a[i]) % k)

\* a \div k and a % k for a small k (k < 2^15)
NatDivSmall(a, k) == Norm(QuotFrom(a, k, Len(a), 0))

NatModSmall(a, k) == RemFrom(a, k, Len(a), 0)

NatOfInt(n) == Norm(<<n % Base, n \div Base>>)

\* a small natural number as an integer
IntOfNat(a) == Limb(a, 1) + Base * Limb(a, 2)

\* a * 2^(16 n)
ShiftLimbs(a, n) == IF a = <<>> THEN <<>> ELSE [i \in 1..n |-> 0] \o a

\* a \div 2^(16 n)
DropLimbs(a, n) == IF Len(a) <= n THEN <<>> ELSE SubSeq(a, n + 1, Len(a))

RECURSIVE BitsOf(_)
BitsOf(x) == IF x = 0 THEN 0 ELSE 1 + BitsOf(x \div 2)

\* number of significant bits of a normalised a
BitLen(a) == IF a = <<>> THEN 0 ELSE 16 * (Len(a) - 1) + BitsOf(a[Len(a)])

\* 2^s
Pow2(s) == [i \in 1..(s \div 16) |-> 0] \o <<2^(s % 16)>>

\* a mod 2^s
LowBits(a, s) ==
  Norm([i \in 1..Len(a) |->
          IF i <= s \div 16 THEN a[i]
          ELSE IF i = s \div 16 + 1 THEN a[i] % (2^(s % 16))
          ELSE 0])

\* bit s of a (bit 0 is the least significant)
BitAt(a, s) == (Limb(a, s \div 16 + 1) \div (2^(s % 16))) % 2

\* ------------------------------------------------------------------------
\* Python floats: binary64 with round-to-nearest, ties-to-even
\* ------------------------------------------------------------------------

\* m without its s lowest bits r, rounded up when they are more than half
\* (c > 0) or exactly half (c = 0) with something below them or an odd bit
\* above them
RoundPick(m, s, r, c, sticky) ==
  IF c > 0 \/ (c = 0 /\ (sticky \/ BitAt(m, s) = 1))
  THEN NatAdd(NatSub(m, r), Pow2(s))
  ELSE NatSub(m, r)

RoundLow(m, s, r, sticky) == RoundPick(m, s, r, NatCmp(r, Pow2(s - 1)), sticky)

\* The binary64 nearest to the natural number m (in any unit), where sticky
\* says that the exact value lies strictly between m and m + 1: keep the 53
\* most significant bits, round the rest to nearest, ties to even.
RoundDouble(m, sticky) ==
  IF BitLen(m) <= 53 THEN m
  ELSE RoundLow(m, BitLen(m) - 53, LowBits(m, BitLen(m) - 53), sticky)

FZero == [neg |-> FALSE, mag |-> <<>>]

MkFloat(neg, mag) == IF mag = <<>> THEN FZero ELSE [neg |-> neg, mag |-> mag]

\* x + y for floats of opposite signs, c comparing their magnitudes
FDiff(x, y, c) ==
  IF c = 0 THEN FZero
  ELSE IF c > 0 THEN MkFloat(x.neg, RoundDouble(NatSub(x.mag, y.mag), FALSE))
  ELSE MkFloat(y.neg, RoundDouble(NatSub(y.mag, x.mag), FALSE))

\* x + y on floats
FAdd(x, y) ==
  IF x.neg = y.neg
  THEN MkFloat(x.neg, RoundDouble(NatAdd(x.mag, y.mag), FALSE))
  ELSE FDiff(x, y, NatCmp(x.mag, y.mag))

FNeg(x) == MkFloat(~x.neg, x.mag)

\* x - y on floats
FSub(x, y) == FAdd(x, FNeg(y))

\* x / 2 on floats: exact, the values of the model being far from underflow
FHalf(x) == MkFloat(x.neg, NatDivSmall(x.mag, 2))

\* abs(x)
FAbs(x) == MkFloat(FALSE, x.mag)

\* x < y on floats
FLess(x, y) ==
  IF x.neg /\ ~y.neg THEN TRUE
  ELSE IF ~x.neg /\ y.neg THEN FALSE
  ELSE IF x.neg THEN NatCmp(x.mag, y.mag) > 0
  ELSE NatCmp(x.mag, y.mag) < 0

\* x > 0
FPositive(x) == ~x.neg /\ x.mag # <<>>

\* the binary64 nearest to n / 100, n counted in units of 2^-128
HundredthOf(n) ==
  MkFloat(FALSE, DropLimbs(RoundDouble(NatDivSmall(n, 100), NatModSmall(n, 100) # 0),
                           FracLimbs))

\* The float of the decimal numeral c/100 (c a whole number of cents), as
\* float("0.10") or the literal 0.01 gives it: the binary64 nearest to the
\* exact quotient.
FloatOfCents(c) == HundredthOf(ShiftLimbs(NatOfInt(c), 2 * FracLimbs))

\* ------------------------------------------------------------------------
\* Formatting of floats
\* ------------------------------------------------------------------------

TwoDigits(n) == IF n < 10 THEN "0" \o ToString(n) ELSE ToString(n)

CentsText(cents) == ToString(cents \div 100) \o "." \o TwoDigits(cents % 100)

\* whole hundredths and the comparison c of the rest with one half
RoundCents(whole, c) ==
  IF c > 0 \/ (c = 0 /\ whole % 2 = 1) THEN whole + 1 ELSE whole

\* m is 100 times the magnitude
Fmt2Of(neg, m) ==
  (IF neg THEN "-" ELSE "")
    \o CentsText(RoundCents(IntOfNat(DropLimbs(m, FracLimbs)),
                            NatCmp(LowBits(m, 16 * FracLimbs),
                                   Pow2(16 * FracLimbs - 1))))

\* f"{x:.2f}": the exact binary value rounded to two decimals, ties to even
Fmt2(x) == Fmt2Of(x.neg, NatMulSmall(x.mag, 100))

RECURSIVE DigitsOf(_)
\* the decimal digits of a natural number, "" for zero
DigitsOf(a) ==
  IF a = <<>> THEN ""
  ELSE DigitsOf(NatDivSmall(a, 10)) \o ToString(NatModSmall(a, 10))

RECURSIVE ZeroPad(_, _)
ZeroPad(str, n) == IF Len(str) >= n THEN str ELSE ZeroPad("0" \o str, n)

\* the digits ds with a point before the last p of them
PointAt(ds, p) ==
  SubSeq(ds, 1, Len(ds) - p) \o "." \o SubSeq(ds, Len(ds) - p + 1, Len(ds))

\* the numeral of c / 10^p with p decimals (at least one)
Decimal(c, p) ==
  IF p = 0 THEN ZeroPad(DigitsOf(c), 1) \o ".0"
  ELSE PointAt(ZeroPad(DigitsOf(c), p + 1), p)

\* lo <= v <= hi, or lo < v < hi when the ends do not count
Inside(lo, v, hi, closed) ==
  IF closed THEN NatCmp(lo, v) <= 0 /\ NatCmp(v, hi) <= 0
  ELSE NatCmp(lo, v) < 0 /\ NatCmp(v, hi) < 0

\* of c1 and c1 + 1, both reading back as the float: the nearer to x, the
\* even one when they are equally near (near compares the two distances)
Nearer(c1, near) ==
  IF near < 0 \/ (near = 0 /\ BitAt(c1, 0) = 0) THEN c1 ELSE NatAdd(c1, <<1>>)

RECURSIVE ShortestFrom(_, _, _, _, _)

ShortestPick(x, lo, hi, closed, p, c1, in1, in2) ==
  IF in1 /\ in2
  THEN Decimal(Nearer(c1, NatCmp(NatSub(x, ShiftLimbs(c1, 2 * FracLimbs)),
                                 NatSub(ShiftLimbs(NatAdd(c1, <<1>>), 2 * FracLimbs), x))),
               p)
  ELSE IF in1 \/ in2 THEN Decimal(IF in1 THEN c1 ELSE NatAdd(c1, <<1>>), p)
  ELSE ShortestFrom(NatMulSmall(x, 10), NatMulSmall(lo, 10), NatMulSmall(hi, 10),
                    closed, p + 1)

ShortestAt(x, lo, hi, closed, p, c1) ==
  ShortestPick(x, lo, hi, closed, p, c1,
               Inside(lo, ShiftLimbs(c1, 2 * FracLimbs), hi, closed),
               Inside(lo, ShiftLimbs(NatAdd(c1, <<1>>), 2 * FracLimbs), hi, closed))

\* repr's search: the fewest decimals p for which a multiple of 10^-p reads
\* back as the float, and of two such multiples the nearer one. x, lo and hi
\* are the float and the bounds of the values that round to it, all
\* multiplied by 10^p, in units of 2^-128; closed says the bounds round to
\* it too (its mantissa is even).
ShortestFrom(x, lo, hi, closed, p) ==
  ShortestAt(x, lo, hi, closed, p, DropLimbs(x, 2 * FracLimbs))

\* half the gap to the next float above, and to the next float below
\* (a quarter of the gap above when m is a power of two)
ShortestOf(m, len) ==
  ShortestFrom(m,
               NatSub(m, IF m = Pow2(len - 1) THEN Pow2(len - 55) ELSE Pow2(len - 54)),
               NatAdd(m, Pow2(len - 54)),
               BitAt(m, len - 53) = 0, 0)

\* m is the magnitude in units of 2^-128
StrOf(neg, m) == (IF neg THEN "-" ELSE "") \o ShortestOf(m, BitLen(m))

\* str(x) of a float x with 0.0001 <= |x| < 10^16 or x = 0: the shortest
\* numeral that reads back as x
Str(x) == IF x.mag = <<>> THEN "0.0" ELSE StrOf(x.neg, ShiftLimbs(x.mag, FracLimbs))

\* ------------------------------------------------------------------------
\* The program
\* ------------------------------------------------------------------------

VARIABLES
  CATEGORIES,   \* the module-level list of canonical categories
  expenses,     \* st.session_state.expenses: the list of expense records
  settlement,   \* the tuple calculate_settlement returned to the page
  card,         \* the settlement card the page shows
  csv_data,     \* the CSV behind the download button, "" when there is none
  downloaded    \* the file last downloaded and the records it was made from

vars == <<CATEGORIES, expenses, settlement, card, csv_data, downloaded>>

CanonicalCategories ==
  << "Rent", "Wifi", "Mobile phone plan", "Hydro/Electricity", "Insurance",
     "Groceries", "Eating Out", "Coffee", "Alcohol", "Travel",
     "Laundry", "Shopping", "Miscellaneous", "Vacation / Entertainment" >>

\* the choices of the form's and the grid's select boxes
Payers == {"H", "M"}

Consumers == {"Split", "H only", "M only"}

Range(f) == {f[i] : i \in DOMAIN f}

\* the dict add_expense appends; float(amount) of the amount entered with
\* two decimals
Expense(category, cents, payer, consumer) ==
  [Category |-> category, Amount |-> FloatOfCents(cents),
   Payer |-> payer, Consumer |-> consumer]

\* ---- calculate_settlement ----

\* one pass of the loop of calculate_settlement over the record exp
SettleStep(acc, exp) ==
  LET amt == exp.Amount
  IN  [total_paid_h |-> IF exp.Payer = "H" THEN FAdd(acc.total_paid_h, amt)
                        ELSE acc.total_paid_h,
       total_paid_m |-> IF exp.Payer = "H" THEN acc.total_paid_m
                        ELSE FAdd(acc.total_paid_m, amt),
       cost_h |-> IF exp.Consumer = "Split" THEN FAdd(acc.cost_h, FHalf(amt))
                  ELSE IF exp.Consumer = "H only" THEN FAdd(acc.cost_h, amt)
                  ELSE acc.cost_h,
       cost_m |-> IF exp.Consumer = "Split" THEN FAdd(acc.cost_m, FHalf(amt))
                  ELSE IF exp.Consumer = "H only" THEN acc.cost_m
                  ELSE FAdd(acc.cost_m, amt)]

RECURSIVE SettleFrom(_, _, _)
SettleFrom(data, i, acc) ==
  IF i > Len(data) THEN acc ELSE SettleFrom(data, i + 1, SettleStep(acc, data[i]))

\* the returned tuple: the four sums and balance_h
SettlementOf(sums) ==
  [total_paid_h |-> sums.total_paid_h, total_paid_m |-> sums.total_paid_m,
   cost_h |-> sums.cost_h, cost_m |-> sums.cost_m,
   balance_h |-> FSub(sums.total_paid_h, sums.cost_h)]

calculate_settlement(data) ==
  SettlementOf(SettleFrom(data, 1, [total_paid_h |-> FZero, total_paid_m |-> FZero,
                                    cost_h |-> FZero, cost_m |-> FZero]))

\* ---- generate_csv ----

EmptyBuckets == [H |-> <<>>, M |-> <<>>, Split |-> <<>>]

\* a grouping that starts without the canonical categories
SeedGroupedEmpty(cats) ==
  [keys |-> <<>>, buckets |-> [c \in {} |-> EmptyBuckets]]

\* grouped as first built: a dict keeps its keys in insertion order
SeedGrouped(cats) ==
  [keys |-> cats, buckets |-> [c \in Range(cats) |-> EmptyBuckets]]

\* a pass of the grouping loop that skips a record of an unlisted category
GroupStepDropping(grouped, exp) ==
  IF exp.Category \notin DOMAIN grouped.buckets THEN grouped
  ELSE IF exp.Consumer = "H only"
  THEN [grouped EXCEPT !.buckets[exp.Category].H = Append(@, exp.Amount)]
  ELSE IF exp.Consumer = "M only"
  THEN [grouped EXCEPT !.buckets[exp.Category].M = Append(@, exp.Amount)]
  ELSE [grouped EXCEPT !.buckets[exp.Category].Split = Append(@, exp.Amount)]

\* one pass of the grouping loop over the record exp
GroupStep(grouped, exp) ==
  LET cat   == exp.Category
      amt   == exp.Amount
      cons  == exp.Consumer
      known == IF cat \in DOMAIN grouped.buckets THEN grouped
               ELSE [keys |-> Append(grouped.keys, cat),
                     buckets |-> grouped.buckets @@ (cat :> EmptyBuckets)]
      which == IF cons = "H only" THEN "H"
               ELSE IF cons = "M only" THEN "M" ELSE "Split"
  IN  [known EXCEPT !.buckets[cat][which] = Append(@, amt)]

RECURSIVE GroupFrom(_, _, _)
GroupFrom(data, i, grouped) ==
  IF i > Len(data) THEN grouped
  ELSE GroupFrom(data, i + 1, GroupStep(grouped, data[i]))

Grouped(data, cats) == GroupFrom(data, 1, SeedGrouped(cats))

RECURSIVE JoinPlus(_)
\* "+".join(map(str, vals)) of a non-empty list
JoinPlus(vals) ==
  IF Len(vals) = 1 THEN Str(vals[1])
  ELSE JoinPlus(SubSeq(vals, 1, Len(vals) - 1)) \o "+" \o Str(vals[Len(vals)])

\* a bucket text that leaves an empty bucket empty
BucketTextBlank(vals) == IF vals # <<>> THEN JoinPlus(vals) ELSE ""

\* the text a bucket contributes to a formula
BucketText(vals) == IF vals # <<>> THEN JoinPlus(vals) ELSE "0"

RECURSIVE PySum(_)
\* sum(vals), added from the left starting at 0; the compensated summation
\* of later interpreters gives the same whenever no addition rounds
PySum(vals) ==
  IF vals = <<>> THEN FZero
  ELSE FAdd(PySum(SubSeq(vals, 1, Len(vals) - 1)), vals[Len(vals)])

\* the line of one category from the texts of its three buckets
RowLine(cat, p_h, p_m, s_all, total_val) ==
  cat \o "," \o "=((" \o p_h \o ") + (" \o s_all \o ")/2)"
      \o "," \o "=((" \o p_m \o ") + (" \o s_all \o ")/2)"
      \o "," \o Str(total_val) \o "\n"

\* the line written for category cat, "" when all its buckets are empty
RowText(cat, b) ==
  IF b.H # <<>> \/ b.M # <<>> \/ b.Split # <<>>
  THEN RowLine(cat, BucketText(b.H), BucketText(b.M), BucketText(b.Split),
               FAdd(FAdd(PySum(b.H), PySum(b.M)), PySum(b.Split)))
  ELSE ""

RECURSIVE RowsFrom(_, _)
RowsFrom(grouped, k) ==
  IF k > Len(grouped.keys) THEN ""
  ELSE RowText(grouped.keys[k], grouped.buckets[grouped.keys[k]])
         \o RowsFrom(grouped, k + 1)

\* a sentence that also calls a balance of exactly one cent settled
SettlementTextInclusive(bal) ==
  IF ~FLess(FloatOfCents(1), FAbs(bal)) THEN "All Square"
  ELSE IF FPositive(bal) THEN "M owes H: $" \o Fmt2(FAbs(bal))
  ELSE "H owes M: $" \o Fmt2(FAbs(bal))

\* a sentence without the tolerance
SettlementTextNoTolerance(bal) ==
  IF FPositive(bal) THEN "M owes H: $" \o Fmt2(FAbs(bal))
  ELSE "H owes M: $" \o Fmt2(FAbs(bal))

\* the settlement sentence of the summary
SettlementText(bal) ==
  IF FLess(FAbs(bal), FloatOfCents(1)) THEN "All Square"
  ELSE IF FPositive(bal) THEN "M owes H: $" \o Fmt2(FAbs(bal))
  ELSE "H owes M: $" \o Fmt2(FAbs(bal))

\* the summary section written from the tuple res of calculate_settlement
SummaryOf(res) ==
  "\nSUMMARY,,,\n"
    \o "Total Paid By H,$" \o Fmt2(res.total_paid_h)
    \o ",Total Paid By M,$" \o Fmt2(res.total_paid_m) \o "\n"
    \o "Who Owes Whom?," \o SettlementText(res.balance_h) \o ",,\n"

SummaryText(data) == SummaryOf(calculate_settlement(data))

HeaderText == "Category,H Cost (Formula),M Cost (Formula),Total Category Cost\n"

\* the string generate_csv returns
CsvText(data, cats) ==
  HeaderText \o RowsFrom(Grouped(data, cats), 1) \o SummaryText(data)

\* an export that registers the unlisted categories it meets
generate_csv_registering(data) ==
  /\ csv_data' = CsvText(data, CATEGORIES)
  /\ expenses' = data
  /\ CATEGORIES' = Grouped(data, CATEGORIES).keys

\* a call of generate_csv(data) from the page: its result goes behind the
\* download button; it assigns to nothing but its own locals, so the list it
\* was given and CATEGORIES are as before
generate_csv(data) ==
  /\ csv_data' = CsvText(data, CATEGORIES)
  /\ expenses' = data
  /\ CATEGORIES' = CATEGORIES

\* ---- the page ----

\* a card that also calls a balance of exactly one cent settled
SettlementCardInclusive(balance) ==
  IF ~FLess(FloatOfCents(1), FAbs(balance))
  THEN [kind |-> "info", text |-> "All Square!"]
  ELSE IF FPositive(balance)
  THEN [kind |-> "success", text |-> "**M owes H: $" \o Fmt2(FAbs(balance)) \o "**"]
  ELSE [kind |-> "warning", text |-> "**H owes M: $" \o Fmt2(FAbs(balance)) \o "**"]

\* the styled result card
SettlementCard(balance) ==
  IF FLess(FAbs(balance), FloatOfCents(1))
  THEN [kind |-> "info", text |-> "All Square!"]
  ELSE IF FPositive(balance)
  THEN [kind |-> "success", text |-> "**M owes H: $" \o Fmt2(FAbs(balance)) \o "**"]
  ELSE [kind |-> "warning", text |-> "**H owes M: $" \o Fmt2(FAbs(balance)) \o "**"]

NoDownload == [data |-> <<>>, csv |-> ""]

\* the right column: settlement, card and download button
RenderWith(current_data, res) ==
  /\ settlement' = res
  /\ card' = SettlementCard(res.balance_h)
  /\ IF current_data # <<>>
     THEN generate_csv(current_data)
     ELSE /\ csv_data' = ""
          /\ expenses' = current_data
          /\ CATEGORIES' = CATEGORIES

\* one run of the script from the point where the grid has returned
\* current_data: sync, settlement, card and download button
Render(current_data) == RenderWith(current_data, calculate_settlement(current_data))

MaxRecords == 3

Init ==
  /\ CATEGORIES = CanonicalCategories
  /\ expenses = <<>>
  /\ settlement = calculate_settlement(<<>>)
  /\ card = SettlementCard(settlement.balance_h)
  /\ csv_data = ""
  /\ downloaded = NoDownload

\* the form is submitted: add_expense, then the rest of the script
Submit(category, cents, payer, consumer) ==
  /\ Len(expenses) < MaxRecords
  /\ Render(Append(expenses, Expense(category, cents, payer, consumer)))
  /\ UNCHANGED downloaded

\* a row is added in the grid, its cells as typed there
EditorAddRow(category, cents, payer, consumer) ==
  /\ Len(expenses) < MaxRecords
  /\ Render(Append(expenses, Expense(category, cents, payer, consumer)))
  /\ UNCHANGED downloaded

\* row i is deleted in the grid
EditorDeleteRow(i) ==
  /\ i \in 1..Len(expenses)
  /\ Render(SubSeq(expenses, 1, i - 1) \o SubSeq(expenses, i + 1, Len(expenses)))
  /\ UNCHANGED downloaded

\* the download button is pressed: the browser keeps the file, the script
\* runs again on the same records
Download ==
  /\ csv_data # ""
  /\ downloaded' = [data |-> expenses, csv |-> csv_data]
  /\ Render(expenses)

\* ------------------------------------------------------------------------
\* Specifications: the same page driven with different entries
\* ------------------------------------------------------------------------

\* a cell of the grid left without one of the listed choices
OtherConsumers == {"None"}

\* categories typed in the grid that are not in the list
OtherCategories == {"Pets", "Gym"}

\* amounts of one cent, any payer and consumer
Next ==
  \/ \E payer \in Payers, consumer \in Consumers : Submit("Rent", 1, payer, consumer)
  \/ \E i \in 1..MaxRecords : EditorDeleteRow(i)

Spec == Init /\ [][Next]_vars

\* amounts of 0.1, 0.2 and 0.3 used by one person alone, and grid rows
\* without a listed consumer
NextFloat ==
  \/ \E cents \in {10, 20, 30}, payer \in Payers, consumer \in {"H only", "M only"} :
       Submit("Rent", cents, payer, consumer)
  \/ \E consumer \in OtherConsumers : EditorAddRow("Rent", 10, "H", consumer)
  \/ \E i \in 1..MaxRecords : EditorDeleteRow(i)

SpecFloat == Init /\ [][NextFloat]_vars

\* whole amounts in one category
NextFormula ==
  \/ \E cents \in {1000, 2000}, consumer \in Consumers :
       Submit("Groceries", cents, "H", consumer)
  \/ \E i \in 1..MaxRecords : EditorDeleteRow(i)

SpecFormula == Init /\ [][NextFormula]_vars

\* listed and unlisted categories
NextLedger ==
  \/ \E category \in {"Groceries", "Rent"}, consumer \in {"H only", "Split"} :
       Submit(category, 1000, "H", consumer)
  \/ \E category \in OtherCategories : EditorAddRow(category, 1000, "M", "M only")
  \/ \E i \in 1..MaxRecords : EditorDeleteRow(i)

SpecLedger == Init /\ [][NextLedger]_vars

\* downloads between changes of the records
NextExport ==
  \/ Submit("Rent", 1000, "H", "H only")
  \/ EditorAddRow("Pets", 1000, "M", "M only")
  \/ \E i \in 1..MaxRecords : EditorDeleteRow(i)
  \/ Download

SpecExport == Init /\ [][NextExport]_vars

\* ------------------------------------------------------------------------
\* Reading a CSV text back
\* ------------------------------------------------------------------------

RECURSIVE FindChar(_, _, _)
\* the first position from i on where str has the character ch, 0 if none
FindChar(str, ch, i) ==
  IF i > Len(str) THEN 0
  ELSE IF SubSeq(str, i, i) = ch THEN i
  ELSE FindChar(str, ch, i + 1)

RECURSIVE LinesFrom(_, _)

LineTo(str, i, j) ==
  IF j = 0 THEN <<SubSeq(str, i, Len(str))>>
  ELSE <<SubSeq(str, i, j - 1)>> \o LinesFrom(str, j + 1)

\* the lines of str from position i on, each without its line feed
LinesFrom(str, i) ==
  IF i > Len(str) THEN <<>> ELSE LineTo(str, i, FindChar(str, "\n", i))

\* the category lines of a CSV: those between the header and the blank line
\* that starts the four lines of the summary
RowLines(csv) == SubSeq(LinesFrom(csv, 1), 2, Len(LinesFrom(csv, 1)) - 4)

\* the first field of a line
FirstField(line) == SubSeq(line, 1, FindChar(line, ",", 1) - 1)

RowCategories(csv) == [k \in DOMAIN RowLines(csv) |-> FirstField(RowLines(csv)[k])]

EndsWith(str, tail) ==
  /\ Len(str) >= Len(tail)
  /\ SubSeq(str, Len(str) - Len(tail) + 1, Len(str)) = tail

StartsWith(str, head) ==
  /\ Len(str) >= Len(head)
  /\ SubSeq(str, 1, Len(head)) = head

\* the last line of the summary carrying the sentence txt
SentenceLine(txt) == "Who Owes Whom?," \o txt \o ",,\n"

RECURSIVE FindLast(_, _, _)
\* the last position up to i where str has the character ch, 0 if none
FindLast(str, ch, i) ==
  IF i = 0 THEN 0
  ELSE IF SubSeq(str, i, i) = ch THEN i
  ELSE FindLast(str, ch, i - 1)

\* the last field of a line
LastField(line) == SubSeq(line, FindLast(line, ",", Len(line)) + 1, Len(line))

\* the categories of the records, and the places of the records of one
CategoriesOf(data) == {data[i].Category : i \in DOMAIN data}

PlacesOf(data, cat) == {i \in DOMAIN data : data[i].Category = cat}

\* ------------------------------------------------------------------------
\* C1: the settlement sentence of the export
\* ------------------------------------------------------------------------

\* the sentence as the claim has it: owing only beyond one cent
ClaimedSentence(bal) ==
  IF FLess(FloatOfCents(1), bal) THEN "M owes H: $" \o Fmt2(FAbs(bal))
  ELSE IF FLess(bal, FNeg(FloatOfCents(1))) THEN "H owes M: $" \o Fmt2(FAbs(bal))
  ELSE "All Square"

\* the sentence with owing from one cent on
AmendedSentence(bal) ==
  IF ~FLess(bal, FloatOfCents(1)) THEN "M owes H: $" \o Fmt2(FAbs(bal))
  ELSE IF ~FLess(FNeg(FloatOfCents(1)), bal) THEN "H owes M: $" \o Fmt2(FAbs(bal))
  ELSE "All Square"

\* C1 as claimed: the sentence written by generate_csv is "M owes H: $X.XX"
\* if the balance is > 0.01, "H owes M: $X.XX" if it is < -0.01, and
\* "All Square" otherwise, a balance of exactly 0.01 or -0.01 included.
C1_SentenceStrict ==
  csv_data # "" =>
    EndsWith(csv_data, SentenceLine(ClaimedSentence(settlement.balance_h)))

\* C1 amended: the sentence is "M owes H: $X.XX" if the balance is >= 0.01,
\* "H owes M: $X.XX" if it is <= -0.01, and "All Square" exactly when its
\* magnitude is below 0.01; X.XX is the magnitude to two decimals.
C1_Sentence ==
  csv_data # "" =>
    EndsWith(csv_data, SentenceLine(AmendedSentence(settlement.balance_h)))

\* a balance of exactly 0.01 has been exported
C1_Witness ==
  /\ settlement.balance_h = FloatOfCents(1)
  /\ EndsWith(csv_data, SentenceLine("M owes H: $0.01"))

\* ------------------------------------------------------------------------
\* C2: the two forms of the balance
\* ------------------------------------------------------------------------

RECURSIVE AmountsOf(_)
AmountsOf(data) ==
  IF data = <<>> THEN <<>>
  ELSE AmountsOf(SubSeq(data, 1, Len(data) - 1)) \o <<data[Len(data)].Amount>>

\* C2: the result of calculate_settlement has balance = totalPaidH - costH
\* and balance = costM - totalPaidM, that is totalPaidH + totalPaidM =
\* costH + costM = the sum of all amounts.
C2_BalanceForms ==
  /\ settlement.balance_h = FSub(settlement.total_paid_h, settlement.cost_h)
  /\ settlement.balance_h = FSub(settlement.cost_m, settlement.total_paid_m)
  /\ FAdd(settlement.total_paid_h, settlement.total_paid_m)
       = FAdd(settlement.cost_h, settlement.cost_m)
  /\ FAdd(settlement.cost_h, settlement.cost_m) = PySum(AmountsOf(expenses))

\* ------------------------------------------------------------------------
\* C3: the formulas of the export against the costs of the settlement
\* ------------------------------------------------------------------------

\* what a spreadsheet computes from "=((a1+...) + (s1+...)/2)"
FormulaValue(own, split) == FAdd(PySum(own), FHalf(PySum(split)))

RECURSIVE CostFrom(_, _, _)
\* the values of one cost column added over the rows from the k-th key on
CostFrom(grouped, who, k) ==
  IF k = 0 THEN FZero
  ELSE IF RowText(grouped.keys[k], grouped.buckets[grouped.keys[k]]) = ""
  THEN CostFrom(grouped, who, k - 1)
  ELSE FAdd(CostFrom(grouped, who, k - 1),
            FormulaValue(grouped.buckets[grouped.keys[k]][who],
                         grouped.buckets[grouped.keys[k]].Split))

ColumnSum(grouped, who) == CostFrom(grouped, who, Len(grouped.keys))

\* C3: over the category rows of the export the H-cost formulas add up to
\* the costH of calculate_settlement and the M-cost formulas to its costM,
\* also for records whose consumer is none of Split, H only, M only.
C3_FormulasGiveCosts ==
  csv_data # "" =>
    /\ ColumnSum(Grouped(expenses, CATEGORIES), "H") = settlement.cost_h
    /\ ColumnSum(Grouped(expenses, CATEGORIES), "M") = settlement.cost_m

\* ------------------------------------------------------------------------
\* C4: the order of the records
\* ------------------------------------------------------------------------

Reordered(data, perm) == [i \in DOMAIN data |-> data[perm[i]]]

\* C4: calculate_settlement returns identical totalPaidH, totalPaidM, costH,
\* costM and balance for any two record sequences that are permutations of
\* one another.
C4_OrderIndependent ==
  \A perm \in Permutations(DOMAIN expenses) :
    calculate_settlement(Reordered(expenses, perm)) = settlement

\* ------------------------------------------------------------------------
\* C5: the order of the category rows
\* ------------------------------------------------------------------------

\* the place of a category in the order of the rows: its place in the
\* canonical list, or behind that list by the place of its first record
Rank(cat) ==
  IF cat \in Range(CanonicalCategories)
  THEN CHOOSE k \in DOMAIN CanonicalCategories : CanonicalCategories[k] = cat
  ELSE Len(CanonicalCategories)
         + (CHOOSE i \in PlacesOf(expenses, cat) :
              \A j \in PlacesOf(expenses, cat) : i <= j)

\* C5: rows of canonical categories come in the order of the canonical
\* list, every row of another category comes after all of them, and those
\* other categories come in the order of their first record.
C5_RowOrder ==
  \A i, j \in DOMAIN RowCategories(csv_data) :
    i < j => Rank(RowCategories(csv_data)[i]) < Rank(RowCategories(csv_data)[j])

\* records of Pets, Gym and Rent, in that order, exported as Rent, Pets, Gym
C5_Witness ==
  /\ Len(expenses) = 3
  /\ expenses[1].Category = "Pets"
  /\ expenses[2].Category = "Gym"
  /\ expenses[3].Category = "Rent"
  /\ RowCategories(csv_data) = <<"Rent", "Pets", "Gym">>

\* ------------------------------------------------------------------------
\* C6: one row per category, every record in one bucket
\* ------------------------------------------------------------------------

BucketsOf(cat) == Grouped(expenses, CATEGORIES).buckets[cat]

\* the total of n amounts of ten, as the Total column shows it
TensText(n) == ToString(10 * n) \o ".0"

\* C6: generate_csv writes exactly one row for each category that occurs in
\* a record and none for any other; every record is in exactly one of the
\* three buckets of its own category, none dropped or counted twice (each
\* amount being 10.0 here, the Total of a row counts its records).
C6_RowsAndBuckets ==
  csv_data # "" =>
    /\ Range(RowCategories(csv_data)) = CategoriesOf(expenses)
    /\ Len(RowCategories(csv_data)) = Cardinality(CategoriesOf(expenses))
    /\ \A cat \in CategoriesOf(expenses) :
         Len(BucketsOf(cat).H) + Len(BucketsOf(cat).M) + Len(BucketsOf(cat).Split)
           = Cardinality(PlacesOf(expenses, cat))
    /\ \A k \in DOMAIN RowLines(csv_data) :
         LastField(RowLines(csv_data)[k])
           = TensText(Cardinality(PlacesOf(expenses, RowCategories(csv_data)[k])))

\* an unlisted category beside a category with two records
C6_Witness ==
  /\ Len(expenses) = 3
  /\ CategoriesOf(expenses) = {"Pets", "Rent"}
  /\ Cardinality(PlacesOf(expenses, "Rent")) = 2
  /\ Len(RowLines(csv_data)) = 2
  /\ LastField(RowLines(csv_data)[1]) = "20.0"

\* ------------------------------------------------------------------------
\* C7: the text of a category row
\* ------------------------------------------------------------------------

\* the whole units of a float
Dollars(x) == IntOfNat(DropLimbs(x.mag, FracLimbs))

\* a whole amount written as a float (20.0) or as the claim has it (20)
Numeral(n, asFloat) == IF asFloat THEN ToString(n) \o ".0" ELSE ToString(n)

RECURSIVE JoinNumerals(_, _)
JoinNumerals(vals, asFloat) ==
  IF vals = <<>> THEN "0"
  ELSE IF Len(vals) = 1 THEN Numeral(Dollars(vals[1]), asFloat)
  ELSE JoinNumerals(SubSeq(vals, 1, Len(vals) - 1), asFloat)
         \o "+" \o Numeral(Dollars(vals[Len(vals)]), asFloat)

RECURSIVE DollarsIn(_)
DollarsIn(vals) ==
  IF vals = <<>> THEN 0 ELSE Dollars(vals[1]) + DollarsIn(Tail(vals))

\* the amounts of the records of category cat used as consumer says
AmountsFor(cat, consumer) ==
  AmountsOf(SelectSeq(expenses,
                      LAMBDA e : e.Category = cat /\ e.Consumer = consumer))

ExpectedRow(cat, asFloat) ==
  cat \o ",=((" \o JoinNumerals(AmountsFor(cat, "H only"), asFloat)
      \o ") + (" \o JoinNumerals(AmountsFor(cat, "Split"), asFloat)
      \o ")/2),=((" \o JoinNumerals(AmountsFor(cat, "M only"), asFloat)
      \o ") + (" \o JoinNumerals(AmountsFor(cat, "Split"), asFloat)
      \o ")/2)," \o Numeral(DollarsIn(AmountsOf(
                      SelectSeq(expenses, LAMBDA e : e.Category = cat))), asFloat)

\* C7 as claimed: the H-cost formula is "=((a1+...+ak) + (s1+...+sj)/2)"
\* over the category's H-only and Split amounts in record order, the M-cost
\* formula the same with the M-only amounts, an empty bucket is 0, the Total
\* is the sum of the three buckets, and an amount of 20 is written 20.
C7_RowTextPlain ==
  \A cat \in CategoriesOf(expenses) :
    ExpectedRow(cat, FALSE) \in Range(RowLines(csv_data))

\* C7 amended: the same, with every amount and the Total written as str
\* writes a float: an amount of 20 is written 20.0.
C7_RowText ==
  \A cat \in CategoriesOf(expenses) :
    ExpectedRow(cat, TRUE) \in Range(RowLines(csv_data))

\* H-only 20 and 10 in that order, Split 20, nothing for M alone
C7_Witness ==
  /\ Len(expenses) = 3
  /\ RowLines(csv_data)
       = <<"Groceries,=((20.0+10.0) + (20.0)/2),=((0) + (20.0)/2),50.0">>

\* ------------------------------------------------------------------------
\* C8: the card and the export agree
\* ------------------------------------------------------------------------

\* the sentence of the card without its emphasis
CardSentence(c) ==
  IF c.text = "All Square!" THEN "All Square"
  ELSE SubSeq(c.text, 3, Len(c.text) - 2)

\* C8: the settlement card and the settlement sentence of the exported CSV
\* choose the same one of All Square, M owes H, H owes M and show the same
\* amount.
C8_CardMatchesExport ==
  csv_data # "" =>
    /\ \/ card.text = "All Square!"
       \/ StartsWith(card.text, "**M owes H: $")
       \/ StartsWith(card.text, "**H owes M: $")
    /\ EndsWith(csv_data, SentenceLine(CardSentence(card)))

\* H owes exactly one cent, on the card and in the export
C8_Witness ==
  /\ settlement.balance_h = FNeg(FloatOfCents(1))
  /\ card = [kind |-> "warning", text |-> "**H owes M: $0.01**"]
  /\ EndsWith(csv_data, SentenceLine("H owes M: $0.01"))

\* ------------------------------------------------------------------------
\* C9: no records
\* ------------------------------------------------------------------------

\* C9: on the empty sequence calculate_settlement returns (0,0,0,0,0) and
\* generate_csv returns the header, no category row and a summary with
\* $0.00, $0.00 and "All Square".
C9_Empty ==
  expenses = <<>> =>
    /\ settlement = [total_paid_h |-> FZero, total_paid_m |-> FZero,
                     cost_h |-> FZero, cost_m |-> FZero, balance_h |-> FZero]
    /\ CsvText(expenses, CATEGORIES)
         = "Category,H Cost (Formula),M Cost (Formula),Total Category Cost\n"
             \o "\nSUMMARY,,,\n"
             \o "Total Paid By H,$0.00,Total Paid By M,$0.00\n"
             \o "Who Owes Whom?,All Square,,\n"

\* the page has run on an empty list
C9_Witness ==
  /\ expenses = <<>>
  /\ card = [kind |-> "info", text |-> "All Square!"]
  /\ csv_data = ""

\* ------------------------------------------------------------------------
\* C10: nothing is kept between exports
\* ------------------------------------------------------------------------

\* the canonical list is as written, and an export of the records a
\* downloaded file was made from is that file again
ExportKeepsNothing ==
  /\ CATEGORIES = CanonicalCategories
  /\ (csv_data # "" /\ downloaded.data = expenses) => csv_data = downloaded.csv

\* a run leaves the records as the grid gave them: as they were, with one
\* row more at the end, or with one row less
RecordsKept ==
  \/ expenses' = expenses
  \/ /\ Len(expenses') = Len(expenses) + 1
     /\ SubSeq(expenses', 1, Len(expenses)) = expenses
  \/ \E i \in DOMAIN expenses :
       expenses' = SubSeq(expenses, 1, i - 1) \o SubSeq(expenses, i + 1, Len(expenses))

\* C10: generate_csv keeps no state between calls: the same records give
\* the same output, also with exports of other records in between, and no
\* call changes the canonical category list or the caller's records.
C10_Stateless == []ExportKeepsNothing /\ [][RecordsKept]_vars

\* a file was downloaded and the same two records are exported again
C10_Witness ==
  /\ Len(expenses) = 2
  /\ expenses[1].Category = "Pets"
  /\ downloaded.data = expenses
  /\ downloaded.csv = csv_data

====
